---- MODULE Spec2Model ----
(***************************************************************************)
(* Model of DataProcessor (BigData_Assignemt3_API.py): a cache-or-fetch    *)
(* of an exchange-rate document through Redis and an HTTP API, and the     *)
(* three reports computed from it.                                         *)
(*                                                                         *)
(* Rates are fixed-point numbers in tenths (5 stands for 0.5).  A Python   *)
(* dict is a sequence of <<key, value>> pairs with distinct keys, in       *)
(* insertion order.  JSON text is a sequence of tokens.  The quotient of   *)
(* two integers is the reduced fraction [num, den].                        *)
(***************************************************************************)
EXTENDS Integers, Sequences, FiniteSets, TLC

\* Bounds of the model.
MaxRate == 2      \* generated rates are 1..MaxRate
MaxLen == 2       \* members of a generated rates object

Codes == {"A", "B", "C"}
Rates == 1..MaxRate

SnapshotKey == "exchange_rate_data"
RatesKeyTypo == "exchange_rate_data"
RatesKey == "exchange_rates"

None == [none |-> TRUE]

-----------------------------------------------------------------------------
\* JSON text

Tok(k, s, n) == [k |-> k, s |-> s, n |-> n]
LB == Tok("{", "", 0)
RB == Tok("}", "", 0)
Key(s) == Tok("key", s, 0)
Str(s) == Tok("str", s, 0)
Num(n) == Tok("num", "", n)

\* dict[k] = v: a present key keeps its position, a new key goes last.
dict_set(m, k, v) ==
    IF \E i \in 1..Len(m) : m[i][1] = k
    THEN [i \in 1..Len(m) |-> IF m[i][1] = k THEN <<k, v>> ELSE m[i]]
    ELSE Append(m, <<k, v>>)

RECURSIVE dict_of(_, _)
\* The dict a JSON object's first n members build (a repeated key: last value wins).
dict_of(ps, n) ==
    IF n = 0 THEN <<>> ELSE dict_set(dict_of(ps, n - 1), ps[n][1], ps[n][2])

\* The members of an object, as tokens: key, number, key, number, ...
members_text(ps) ==
    [i \in 1..(2 * Len(ps)) |->
        IF i % 2 = 1 THEN Key(ps[(i + 1) \div 2][1]) ELSE Num(ps[i \div 2][2])]

\* json.dumps of a mapping of currency codes to rates.
dumps_rates(m) == <<LB>> \o members_text(m) \o <<RB>>

\* json.dumps of a document.
dumps(doc) ==
    <<LB, Key("result"), Str(doc.result)>>
        \o (IF "conversion_rates" \in DOMAIN doc
            THEN <<Key("conversion_rates")>> \o dumps_rates(doc.conversion_rates)
            ELSE <<>>)
        \o <<RB>>

\* The text between two braces is a run of key, number members.
is_members(t, from, to) ==
    /\ (to - from + 1) % 2 = 0
    /\ \A i \in from..to :
          IF (i - from) % 2 = 0 THEN t[i].k = "key" ELSE t[i].k = "num"

members_of(t, from, to) ==
    [j \in 1..((to - from + 1) \div 2) |->
        <<t[from + 2 * (j - 1)].s, t[from + 2 * (j - 1) + 1].n>>]

\* json.loads of the text of a mapping.
loads_rates(t) ==
    LET n == Len(t)
        ok == /\ n >= 2
              /\ t[1] = LB
              /\ t[n] = RB
              /\ is_members(t, 2, n - 1)
    IN  IF ok
        THEN LET ps == members_of(t, 2, n - 1)
             IN  [ok |-> TRUE, val |-> dict_of(ps, Len(ps))]
        ELSE [ok |-> FALSE, val |-> <<>>]

\* json.loads / response.json() of the text of a document.
loads(t) ==
    LET n == Len(t)
        head == /\ n >= 4
                /\ t[1] = LB
                /\ t[2] = Key("result")
                /\ t[3].k = "str"
                /\ t[n] = RB
    IN  IF head /\ n = 4
        THEN [ok |-> TRUE, val |-> [result |-> t[3].s]]
        ELSE IF head /\ n >= 7 /\ t[4] = Key("conversion_rates")
                     /\ loads_rates(SubSeq(t, 5, n - 1)).ok
        THEN [ok |-> TRUE,
              val |-> [result |-> t[3].s,
                       conversion_rates |-> loads_rates(SubSeq(t, 5, n - 1)).val]]
        ELSE [ok |-> FALSE, val |-> None]

-----------------------------------------------------------------------------
\* Inputs

PairSeqs(n) == UNION {[1..k -> Codes \X Rates] : k \in 0..n}

doc_text(ps) ==
    <<LB, Key("result"), Str("success"), Key("conversion_rates"), LB>>
        \o members_text(ps) \o <<RB, RB>>

NoFieldText == <<LB, Key("result"), Str("error"), RB>>
TruncatedText == <<LB, Key("result"), Str("success"), Key("conversion_rates"), LB>>
ExamplePairs == <<<<"A", 4>>, <<"B", 5>>, <<"C", 10>>, <<"D", 20>>, <<"E", 21>>>>
ExampleText == doc_text(ExamplePairs)
FourPairs == <<<<"A", 1>>, <<"B", 2>>, <<"C", 3>>, <<"D", 4>>>>

\* The texts the full system meets: rate objects that are empty, single,
\* with equal rates, with a repeated key, the example; a document without
\* the field; a truncated text.
SmallPairs ==
    {<<>>, <<<<"A", 1>>>>, <<<<"B", 2>>, <<"A", 2>>>>, <<<<"A", 1>>, <<"A", 2>>>>,
     ExamplePairs}
SmallBodies == {doc_text(ps) : ps \in SmallPairs} \cup {NoFieldText, TruncatedText}
StatBodies ==
    {doc_text(ps) : ps \in PairSeqs(MaxLen)} \cup {ExampleText, doc_text(FourPairs)}

Statuses == {200, 300, 404, 500}
HttpBodies == {doc_text(<<<<"B", 2>>, <<"A", 1>>>>), NoFieldText, TruncatedText, <<>>}
ConnectionFailed == [kind |-> "ConnectionError", status |-> 0, body |-> <<>>]
Response(status, body) == [kind |-> "response", status |-> status, body |-> body]
HttpOutcomes ==
    {ConnectionFailed}
        \cup {Response(s, b) : s \in Statuses, b \in HttpBodies}

InsertDocs == {None} \cup {loads(t).val : t \in {b \in SmallBodies : loads(b).ok}}

\* The range of the script's own search call, in tenths.
MainRange == <<5, 20>>
SearchRanges == (Rates \X Rates) \cup {MainRange}

-----------------------------------------------------------------------------
\* Python and library primitives

Line(text, num, den, items) == [text |-> text, num |-> num, den |-> den, items |-> items]

\* `field in data`: None is not a container.
contains(data, field) ==
    IF data = None THEN "TypeError"
    ELSE IF field \in DOMAIN data THEN "yes" ELSE "no"

guard_unchecked(data) == contains(data, "conversion_rates")

\* `data is not None and 'conversion_rates' in data`
guard(data) == IF data = None THEN "no" ELSE contains(data, "conversion_rates")

\* redis_client.get(key): the value, or nil for a key that is not there.
redis_get(db, key) ==
    IF key \in DOMAIN db THEN [nil |-> FALSE, val |-> db[key]]
    ELSE [nil |-> TRUE, val |-> <<>>]

truthy_never(data) == FALSE

\* `if data:`: nil and the empty value are both false.
truthy(data) == ~data.nil /\ data.val # <<>>

raise_for_status_off(status) == FALSE

\* response.raise_for_status() raises for the 4xx and 5xx statuses only.
raise_for_status(status) == 400 <= status /\ status < 600

\* The exceptions the except clause of fetch_json_from_api names.
caught_by_fetch(e) ==
    e \in {"requests.ConnectionError", "requests.HTTPError",
           "json.JSONDecodeError", "redis.ConnectionError"}

\* redis_client.json().set(name, path): the call leaves out the required
\* third argument (the object), so Python raises TypeError when it binds the
\* arguments and nothing is sent to the store.
json_set_2(db, name, path) == [raised |-> "TypeError", db |-> db]

\* redis_client.json().set(name, path, obj) on a store that is up or down.
json_set_3(db, name, path, obj, up) ==
    IF up
    THEN [raised |-> "none",
          db |-> [k \in DOMAIN db \cup {name} |-> IF k = name THEN obj ELSE db[k]]]
    ELSE [raised |-> "redis.ConnectionError", db |-> db]

RECURSIVE py_sum(_)
py_sum(vals) == IF vals = <<>> THEN 0 ELSE vals[1] + py_sum(Tail(vals))

RECURSIVE gcd(_, _)
gcd(a, b) == IF b = 0 THEN a ELSE gcd(b, a % b)

\* a / b for b # 0, as a reduced fraction.
true_div(a, b) == [num |-> a \div gcd(a, b), den |-> b \div gcd(a, b)]

py_min(vals) == CHOOSE v \in {vals[i] : i \in 1..Len(vals)} :
                    \A i \in 1..Len(vals) : v <= vals[i]
py_max(vals) == CHOOSE v \in {vals[i] : i \in 1..Len(vals)} :
                    \A i \in 1..Len(vals) : v >= vals[i]

\* sorted(s, key=...), keys[i] being the key of s[i]: ascending and stable.
py_sorted(s, keys) ==
    LET n == Len(s)
        pos(i) == Cardinality({j \in 1..n : keys[j] < keys[i]})
                    + Cardinality({j \in 1..(i - 1) : keys[j] = keys[i]}) + 1
    IN  [p \in 1..n |-> s[CHOOSE i \in 1..n : pos(i) = p]]

dict_values(m) == [i \in 1..Len(m) |-> m[i][2]]

-----------------------------------------------------------------------------
\* DataProcessor

Fetched(ret, exc, out, reqs, db) ==
    [ret |-> ret, exc |-> exc, out |-> out, reqs |-> reqs, db |-> db]

\* The except clause: print the error and return None.
fetch_except(e, reqs, db) ==
    Fetched(None, "none", <<Line("Error fetching data:", 0, 1, <<e>>)>>, reqs, db)

\* fetch_json_from_api on store db, with the store up or down and the answer
\* http that requests.get would give.
fetch_json_from_api(db, up, http) ==
    IF ~up THEN fetch_except("redis.ConnectionError", <<>>, db)
    ELSE LET data == redis_get(db, SnapshotKey) IN
    IF truthy(data)
    THEN LET p == loads(data.val)
         IN  IF p.ok THEN Fetched(p.val, "none", <<>>, <<>>, db)
             ELSE fetch_except("json.JSONDecodeError", <<>>, db)
    ELSE IF http.kind = "ConnectionError"
    THEN fetch_except("requests.ConnectionError", <<http>>, db)
    ELSE IF raise_for_status(http.status)
    THEN fetch_except("requests.HTTPError", <<http>>, db)
    ELSE LET p == loads(http.body) IN
    IF ~p.ok THEN fetch_except("json.JSONDecodeError", <<http>>, db)
    ELSE LET w == json_set_2(db, SnapshotKey, dumps(p.val)) IN
    IF w.raised = "none" THEN Fetched(p.val, "none", <<>>, <<http>>, w.db)
    ELSE IF caught_by_fetch(w.raised) THEN fetch_except(w.raised, <<http>>, w.db)
    ELSE Fetched(None, w.raised, <<>>, <<http>>, w.db)

Done(exc, out, db) == [exc |-> exc, out |-> out, db |-> db]

\* insert_into_redis(data)
insert_into_redis(db, data, up) ==
    LET has == contains(data, "conversion_rates")
        logged(e) ==
            <<Line("Error inserting data into Redis using RedisJSON:", 0, 1, <<e>>)>>
    IN  IF has = "TypeError" THEN Done("none", logged("TypeError"), db)
        ELSE IF has = "no" THEN Done("none", <<>>, db)
        ELSE LET w == json_set_3(db, RatesKey, ".", dumps_rates(data.conversion_rates), up)
             IN  IF w.raised = "none" THEN Done("none", <<>>, w.db)
                 ELSE Done("none", logged(w.raised), w.db)

average_or_zero(vals) ==
    IF Len(vals) = 0 THEN [raised |-> "none", val |-> true_div(0, 1)]
    ELSE [raised |-> "none", val |-> true_div(py_sum(vals), Len(vals))]

\* sum(values) / len(values)
average(vals) ==
    IF Len(vals) = 0 THEN [raised |-> "ZeroDivisionError", val |-> true_div(0, 1)]
    ELSE [raised |-> "none", val |-> true_div(py_sum(vals), Len(vals))]

median_index_lower(n) == (n - 1) \div 2

\* len(conversion_rates) // 2, an index counted from 0
median_index(n) == n \div 2

\* The statistics of aggregate_exchange_rates, in the order it computes them.
aggregate(m) ==
    LET vals == dict_values(m)
        avg == average(vals)
    IN  IF avg.raised # "none" THEN [exc |-> avg.raised, out |-> <<>>]
        ELSE IF vals = <<>> THEN [exc |-> "ValueError", out |-> <<>>]
        ELSE [exc |-> "none",
              out |-> <<Line("Average Exchange Rate:", avg.val.num, avg.val.den, <<>>),
                        Line("Minimum Exchange Rate:", py_min(vals), 1, <<>>),
                        Line("Maximum Exchange Rate:", py_max(vals), 1, <<>>),
                        Line("Median Exchange Rate:",
                             py_sorted(vals, vals)[median_index(Len(vals)) + 1],
                             1, <<>>)>>]

in_range_open(lo, rate, hi) == lo <= rate /\ rate < hi

\* min_value <= rate <= max_value
in_range(lo, rate, hi) == lo <= rate /\ rate <= hi

RECURSIVE filtered(_, _, _)
\* [currency for currency, rate in m.items() if min_value <= rate <= max_value]
filtered(m, lo, hi) ==
    IF m = <<>> THEN <<>>
    ELSE (IF in_range(lo, m[1][2], hi) THEN <<m[1][1]>> ELSE <<>>)
            \o filtered(Tail(m), lo, hi)

\* sorted(conversion_rates.items(), key=lambda x: x[1])
sorted_rates(m) == py_sorted(m, dict_values(m))

NoChart == [shown |-> FALSE, bars |-> <<>>]

Report(exc, out, plot) == [exc |-> exc, out |-> out, plot |-> plot]

\* How a report goes on from the result f of its fetch: an exception of the
\* fetch passes through the report, and the guard decides the rest.
enter(f) == IF f.exc # "none" THEN f.exc ELSE guard(f.ret)

\* A report that does not reach its body: it raised (g names the exception)
\* or it skipped (g = "no").
without_body(f, g) == Report(IF g = "no" THEN "none" ELSE g, f.out, NoChart)

plot_exchange_rates(f) ==
    LET g == enter(f)
    IN  IF g # "yes" THEN without_body(f, g)
        ELSE Report("none", f.out,
                    [shown |-> TRUE, bars |-> sorted_rates(f.ret.conversion_rates)])

aggregate_exchange_rates(f) ==
    LET g == enter(f)
    IN  IF g # "yes" THEN without_body(f, g)
        ELSE LET a == aggregate(f.ret.conversion_rates)
             IN  Report(a.exc, f.out \o a.out, NoChart)

search_exchange_rates(f, lo, hi) ==
    LET g == enter(f)
    IN  IF g # "yes" THEN without_body(f, g)
        ELSE Report("none",
                    f.out \o <<Line("Currencies within the given value range:", 0, 1,
                                    filtered(f.ret.conversion_rates, lo, hi))>>,
                    NoChart)

-----------------------------------------------------------------------------
\* State: the Redis store, and what the last call was, did and showed.

VARIABLES
    store,      \* the keys of the Redis database and their values
    call,       \* the last call: operation, arguments, and whether Redis answered
    fetched,    \* what fetch_json_from_api gave the last call
    result,     \* what the last call returned or raised
    console,    \* the lines the last call printed
    chart,      \* the chart the last call showed
    net         \* the HTTP GETs the last call made, with their answers

vars == <<store, call, fetched, result, console, chart, net>>

Call(op, doc, lo, hi, up) == [op |-> op, doc |-> doc, lo |-> lo, hi |-> hi, up |-> up]
NotFetched == [ret |-> None, exc |-> "not called"]
EmptyStore == [k \in {} |-> <<>>]
Holding(t) == [k \in {SnapshotKey} |-> t]

\* The answers requests.get can give a call: it is only made when the store
\* answers and the snapshot key is absent or empty.
Answers(db, up) ==
    IF up /\ ~truthy(redis_get(db, SnapshotKey)) THEN HttpOutcomes
    ELSE {ConnectionFailed}

Started ==
    /\ call = Call("init", None, 0, 0, TRUE)
    /\ fetched = NotFetched
    /\ result = [ret |-> None, exc |-> "none"]
    /\ console = <<>>
    /\ chart = NoChart
    /\ net = <<>>

\* The store outlives the process: the snapshot key may be absent, empty, or
\* hold a text some earlier writer left there.
Init ==
    /\ store \in {EmptyStore} \cup {Holding(t) : t \in SmallBodies \cup {<<>>}}
    /\ Started

InitStats ==
    /\ store \in {Holding(t) : t \in StatBodies}
    /\ Started

getRates ==
    \E up \in BOOLEAN : \E http \in Answers(store, up) :
        LET f == fetch_json_from_api(store, up, http)
        IN  /\ store' = f.db
            /\ call' = Call("getRates", None, 0, 0, up)
            /\ fetched' = [ret |-> f.ret, exc |-> f.exc]
            /\ result' = [ret |-> f.ret, exc |-> f.exc]
            /\ console' = f.out
            /\ chart' = NoChart
            /\ net' = f.reqs

insertRates ==
    \E up \in BOOLEAN, doc \in InsertDocs :
        LET d == insert_into_redis(store, doc, up)
        IN  /\ store' = d.db
            /\ call' = Call("insertRates", doc, 0, 0, up)
            /\ fetched' = NotFetched
            /\ result' = [ret |-> None, exc |-> d.exc]
            /\ console' = d.out
            /\ chart' = NoChart
            /\ net' = <<>>

plotRates ==
    \E up \in BOOLEAN : \E http \in Answers(store, up) :
        LET f == fetch_json_from_api(store, up, http)
            r == plot_exchange_rates(f)
        IN  /\ store' = f.db
            /\ call' = Call("plotRates", None, 0, 0, up)
            /\ fetched' = [ret |-> f.ret, exc |-> f.exc]
            /\ result' = [ret |-> None, exc |-> r.exc]
            /\ console' = r.out
            /\ chart' = r.plot
            /\ net' = f.reqs

aggregateRates ==
    \E up \in BOOLEAN : \E http \in Answers(store, up) :
        LET f == fetch_json_from_api(store, up, http)
            r == aggregate_exchange_rates(f)
        IN  /\ store' = f.db
            /\ call' = Call("aggregateRates", None, 0, 0, up)
            /\ fetched' = [ret |-> f.ret, exc |-> f.exc]
            /\ result' = [ret |-> None, exc |-> r.exc]
            /\ console' = r.out
            /\ chart' = r.plot
            /\ net' = f.reqs

searchRates ==
    \E up \in BOOLEAN, range \in SearchRanges : \E http \in Answers(store, up) :
        LET f == fetch_json_from_api(store, up, http)
            r == search_exchange_rates(f, range[1], range[2])
        IN  /\ store' = f.db
            /\ call' = Call("searchRates", None, range[1], range[2], up)
            /\ fetched' = [ret |-> f.ret, exc |-> f.exc]
            /\ result' = [ret |-> None, exc |-> r.exc]
            /\ console' = r.out
            /\ chart' = r.plot
            /\ net' = f.reqs

Next == getRates \/ insertRates \/ plotRates \/ aggregateRates \/ searchRates

Spec == Init /\ [][Next]_vars

\* The three reports over a populated snapshot key.
NextStats == plotRates \/ aggregateRates \/ searchRates

SpecStats == InitStats /\ [][NextStats]_vars

-----------------------------------------------------------------------------
\* Properties

Reports == {"plotRates", "aggregateRates", "searchRates"}
Fetchers == Reports \cup {"getRates"}

\* The value of the snapshot key, if it has one.
Snap(db) == IF SnapshotKey \in DOMAIN db THEN <<db[SnapshotKey]>> ELSE <<>>

\* The snapshot key holds a document.
HoldsDoc(db) == Snap(db) # <<>> /\ Snap(db)[1] # <<>> /\ loads(Snap(db)[1]).ok

\* The call made one HTTP GET, answered with a status in the given set.
Answered(reqs, statuses) ==
    reqs # <<>> /\ reqs[1].kind = "response" /\ reqs[1].status \in statuses

\* The call's HTTP GET succeeded: a 2xx status and a well-formed body.
GetSucceeded(reqs) == Answered(reqs, 200..299) /\ loads(reqs[1].body).ok

\* The call printed nothing but the error of its fetch.
NoReportLine(out) == \A i \in 1..Len(out) : out[i].text = "Error fetching data:"

\* The last call had a document with a conversion_rates mapping to report on.
HasRates == fetched.exc = "none" /\ guard(fetched.ret) = "yes"

\* C1: after a getRates that missed the cache and fetched the document with
\* a successful GET, the next getRates returns the same document and makes no
\* HTTP GET.
C1_RoundTrip ==
    [][(/\ call.op = "getRates"
        /\ GetSucceeded(net)
        /\ call'.op = "getRates"
        /\ call'.up)
       => (/\ net' = <<>>
           /\ result'.exc = "none"
           /\ result'.ret = loads(net[1].body).val)]_vars

\* C2: no exception leaves the fetch of any call: each failure inside it ends
\* as a None return.
C2_NoExceptionLeavesFetch == fetched.exc \in {"none", "not called"}

C4_WriteIsBestEffort ==
    (/\ call.op = "getRates"
     /\ GetSucceeded(net)
     /\ Snap(store) # <<dumps(loads(net[1].body).val)>>)
    => (result.exc = "none" /\ result.ret = loads(net[1].body).val)

\* C5: a report whose fetch returned None raises nothing, shows no chart,
\* prints no report line and leaves the store as it was.
C5_ReportsSkipOnNone ==
    [][(call'.op \in Reports /\ fetched' = [ret |-> None, exc |-> "none"])
       => (/\ result'.exc = "none"
           /\ chart' = NoChart
           /\ NoReportLine(console')
           /\ store' = store)]_vars

C5_Witness ==
    /\ call.op = "aggregateRates"
    /\ fetched = [ret |-> None, exc |-> "none"]
    /\ Answered(net, {500})
    /\ result.exc = "none"

\* C6: the snapshot key changes only in a call whose fetch missed the cache,
\* and while it holds a document no call changes it or makes an HTTP GET: a
\* fetch that reaches the store returns the cached document.
C6_SnapshotLifecycle ==
    [][/\ Snap(store') # Snap(store) => (call'.op \in Fetchers /\ net' # <<>>)
       /\ HoldsDoc(store) =>
            /\ Snap(store') = Snap(store)
            /\ net' = <<>>
            /\ (call'.op \in Fetchers /\ call'.up) =>
                  fetched' = [ret |-> loads(Snap(store)[1]).val, exc |-> "none"]]_vars

C6_Witness ==
    /\ HoldsDoc(store)
    /\ call.op = "plotRates"
    /\ call.up
    /\ net = <<>>
    /\ chart.shown
    /\ RatesKey \in DOMAIN store

\* C7: over a non-empty mapping of n rates, aggregateRates prints the average
\* sum / n, the least and the greatest value, and as median the value at index
\* n \div 2 (from 0) of the values in ascending order.
C7_Aggregate ==
    (call.op = "aggregateRates" /\ HasRates /\ fetched.ret.conversion_rates # <<>>)
    => LET vals == dict_values(fetched.ret.conversion_rates)
           n == Len(vals)
           I == 1..n
       IN  /\ result.exc = "none"
           /\ Len(console) = 4
           /\ console[1].text = "Average Exchange Rate:"
           /\ console[1].den > 0
           /\ console[1].num * n = py_sum(vals) * console[1].den
           /\ console[2].text = "Minimum Exchange Rate:"
           /\ \E i \in I : console[2].num = vals[i]
           /\ \A i \in I : console[2].num <= vals[i]
           /\ console[3].text = "Maximum Exchange Rate:"
           /\ \E i \in I : console[3].num = vals[i]
           /\ \A i \in I : console[3].num >= vals[i]
           /\ console[4].text = "Median Exchange Rate:"
           /\ \E i \in I : console[4].num = vals[i]
           /\ Cardinality({i \in I : vals[i] < console[4].num}) <= n \div 2
           /\ Cardinality({i \in I : vals[i] <= console[4].num}) > n \div 2

\* The rates 1, 2, 3, 4: the median printed is 3, the average 5/2.
C7_Witness ==
    /\ call.op = "aggregateRates"
    /\ HasRates
    /\ fetched.ret.conversion_rates = FourPairs
    /\ Len(console) = 4
    /\ <<console[1].num, console[1].den>> = <<5, 2>>
    /\ <<console[2].num, console[3].num, console[4].num>> = <<1, 4, 3>>

\* C8: searchRates(lo, hi) prints the codes whose rate r has lo <= r <= hi,
\* each once, in the order of the mapping.
C8_Search ==
    (call.op = "searchRates" /\ HasRates)
    => LET m == fetched.ret.conversion_rates
           hits == {i \in 1..Len(m) : call.lo <= m[i][2] /\ m[i][2] <= call.hi}
       IN  /\ result.exc = "none"
           /\ Len(console) = 1
           /\ console[1].text = "Currencies within the given value range:"
           /\ Len(console[1].items) = Cardinality(hits)
           /\ \A i \in hits :
                 console[1].items[Cardinality({j \in hits : j < i}) + 1] = m[i][1]

C8_Witness ==
    /\ call.op = "searchRates"
    /\ call.up
    /\ store = Holding(ExampleText)
    /\ <<call.lo, call.hi>> = MainRange
    /\ Len(console) = 1
    /\ console[1].items = <<"B", "C", "D">>

\* C9 as stated: insertRates(doc) puts doc's conversion_rates under the rates
\* key when the store takes the write and leaves the snapshot key alone; for a
\* doc without the field it changes no key, raises nothing and logs a line.
C9_InsertLogsMissingField ==
    [][(call'.op = "insertRates" /\ call'.doc # None)
       => IF "conversion_rates" \in DOMAIN call'.doc
          THEN /\ Snap(store') = Snap(store)
               /\ result'.exc = "none"
               /\ call'.up =>
                    /\ RatesKey \in DOMAIN store'
                    /\ loads_rates(store'[RatesKey]).ok
                    /\ loads_rates(store'[RatesKey]).val = call'.doc.conversion_rates
          ELSE /\ store' = store
               /\ result'.exc = "none"
               /\ console' # <<>>]_vars

\* C9 amended: insertRates(doc) puts the JSON text of doc's conversion_rates
\* under the rates key when the store takes the write, and changes no key and
\* logs a line when it does not; it never changes the snapshot key and never
\* raises; for a doc without the field it changes no key and logs nothing.
C9_Insert ==
    [][(call'.op = "insertRates" /\ call'.doc # None)
       => /\ Snap(store') = Snap(store)
          /\ result'.exc = "none"
          /\ IF "conversion_rates" \in DOMAIN call'.doc
             THEN IF call'.up
                  THEN /\ RatesKey \in DOMAIN store'
                       /\ store'[RatesKey] = dumps_rates(call'.doc.conversion_rates)
                       /\ loads_rates(store'[RatesKey]).ok
                       /\ loads_rates(store'[RatesKey]).val = call'.doc.conversion_rates
                       /\ console' = <<>>
                  ELSE store' = store /\ console' # <<>>
             ELSE store' = store /\ console' = <<>>]_vars

\* The rates key holds an earlier insert's mapping, and the last insert, of a
\* document without the field, logged nothing.
C9_Witness ==
    /\ call.op = "insertRates"
    /\ call.doc # None
    /\ "conversion_rates" \notin DOMAIN call.doc
    /\ RatesKey \in DOMAIN store
    /\ loads_rates(store[RatesKey]).val = ExamplePairs
    /\ console = <<>>

\* C10: over a document whose conversion_rates mapping is empty,
\* aggregateRates ends in ZeroDivisionError with nothing printed, and
\* searchRates completes and prints the empty list.
C10_EmptyMapping ==
    (HasRates /\ fetched.ret.conversion_rates = <<>>)
    => /\ call.op = "aggregateRates" =>
            (result.exc = "ZeroDivisionError" /\ console = <<>>)
       /\ call.op = "searchRates" =>
            /\ result.exc = "none"
            /\ console = <<Line("Currencies within the given value range:", 0, 1, <<>>)>>

C10_Witness ==
    /\ call.op = "aggregateRates"
    /\ HasRates
    /\ fetched.ret.conversion_rates = <<>>
    /\ result.exc = "ZeroDivisionError"

====
